---------------------------- MODULE Spec2Model ----------------------------
(***************************************************************************)
(* GenericAsyncRepository (src/src/app/core/base_repository.py) over one   *)
(* borrowed AsyncSession.  The store is one table with a primary key `id`, *)
(* a nullable foreign key `fk`, a `name` column and a storage-assigned     *)
(* `stamp` column.  Every repository operation is split at its await       *)
(* points; each await can succeed, fail with a storage error, or be        *)
(* cancelled.                                                              *)
(*                                                                         *)
(* Optional values are sequences: <<>> is None, <<v>> is the value v.      *)
(* Text is a sequence of string pieces whose concatenation is the text;    *)
(* storage diagnostics are spelled character by character so that the      *)
(* regular expression of __table_name_from_message is modelled on them.    *)
(***************************************************************************)
EXTENDS Integers, Sequences, FiniteSets, TLC

VARIABLES
    db,        \* committed rows of the table, in primary-key order
    sess,      \* the session: staged unit-of-work, failed-transaction flag
    pc,        \* position of the caller inside the running operation
    op,        \* context of the running operation (arguments, entities)
    exc,       \* the failure held by a running except-handler
    calls,     \* session methods called by the running/last operation
    outcome,   \* how the last finished repository operation ended
    prev,      \* the operation that ended right before the running one, when
               \* the caller went on from its result without a pause
    tx,        \* the enclosing transaction() block, if any
    txOutcome, \* how the last finished transaction() block ended
    orm_model, \* the entity descriptor the repository was constructed with
    other      \* the suspended caller of a second repository and session

vars == <<db, sess, pc, op, exc, calls, outcome, prev, tx, txOutcome,
          orm_model, other>>

---------------------------------------------------------------------------
(* Bounds of the model *)

\* largest identifier the store's generator hands out
MaxId == 2
\* longest create_many batch
MaxBatch == 2
\* most repository operations run inside one transaction() block
MaxBlockOps == 1

---------------------------------------------------------------------------
(* Text *)

None == <<>>
Some(v) == <<v>>

Digits == <<"1", "2", "3", "4", "5", "6", "7", "8", "9">>
\* str(id) of an integer identifier
IdStr(i) == Digits[i]

\* str.split(sep) on a sequence of characters: the pieces between separators
RECURSIVE SplitFrom(_, _, _, _)
SplitFrom(s, sep, i, cur) ==
    IF i > Len(s) THEN <<cur>>
    ELSE IF s[i] = sep THEN <<cur>> \o SplitFrom(s, sep, i + 1, <<>>)
    ELSE SplitFrom(s, sep, i + 1, Append(cur, s[i]))

Split(s, sep) == SplitFrom(s, sep, 1, <<>>)

\* sep.join(parts)
RECURSIVE Join(_, _)
Join(parts, sep) ==
    IF Len(parts) = 0 THEN <<>>
    ELSE IF Len(parts) = 1 THEN parts[1]
    ELSE parts[1] \o <<sep>> \o Join(Tail(parts), sep)

\* the literal prefix of the pattern r'table "(.+?)"'
TablePattern == <<"t", "a", "b", "l", "e", " ", "\"">>

\* the pattern matches at i with its group ending before j:
\* the literal at i, then one or more non-newline characters, then a quote at j
MatchesAt(s, i, j) ==
    /\ i + Len(TablePattern) - 1 <= Len(s)
    /\ SubSeq(s, i, i + Len(TablePattern) - 1) = TablePattern
    /\ j > i + Len(TablePattern)
    /\ j <= Len(s)
    /\ s[j] = "\""
    /\ \A k \in (i + Len(TablePattern))..(j - 1) : s[k] # "\n"

\* re.search: leftmost start, then the lazy group takes the nearest closing quote
TableNameFromMessage(s) ==
    LET starts == {i \in 1..Len(s) : \E j \in 1..Len(s) : MatchesAt(s, i, j)}
    IN  IF starts = {} THEN None
        ELSE LET i == CHOOSE x \in starts : \A y \in starts : x <= y
                 j == CHOOSE x \in 1..Len(s) :
                        /\ MatchesAt(s, i, x)
                        /\ \A y \in 1..Len(s) : MatchesAt(s, i, y) => x <= y
             IN  Some(SubSeq(s, i + Len(TablePattern), j - 1))

\* " ".join(table_name.split("_"))
Formatted(tableName) == Join(Split(tableName, "_"), " ")

IdDoesNotExist == <<" id does not exist">>


---------------------------------------------------------------------------
(* Storage diagnostics of a foreign-key violation *)

\* the table whose row is missing
ReferencedTable ==
    <<"a", "p", "p", "_", "u", "s", "e", "r">>

\* PostgreSQL's wording: the table written to first, the referenced table in
\* the DETAIL line
PostgresFkMessage ==
    <<"i", "n", "s", "e", "r", "t", " ", "o", "n", " ", "t", "a", "b", "l",
      "e", " ", "\"", "p", "o", "s", "t", "\"", " ", "v", "i", "o", "l",
      "a", "t", "e", "s", " ", "k", "e", "y", "\n", "D", "E", "T", "A",
      "I", "L", ":", " ", "n", "o", "t", " ", "i", "n", " ", "t", "a", "b",
      "l", "e", " ", "\"">> \o ReferencedTable \o <<"\"", ".">>

\* a diagnostic that quotes the referenced table only
ReferencedOnlyFkMessage ==
    <<"K", "e", "y", " ", "i", "s", " ", "n", "o", "t", " ", "p", "r", "e",
      "s", "e", "n", "t", " ", "i", "n", " ", "t", "a", "b", "l", "e", " ",
      "\"">> \o ReferencedTable \o <<"\"", ".">>

\* SQLite's wording: no table is named
SqliteFkMessage ==
    <<"F", "O", "R", "E", "I", "G", "N", " ", "K", "E", "Y", " ", "c", "o",
      "n", "s", "t", "r", "a", "i", "n", "t", " ", "f", "a", "i", "l", "e",
      "d">>

FkMessages == {PostgresFkMessage, ReferencedOnlyFkMessage, SqliteFkMessage}

---------------------------------------------------------------------------
(* Failures *)

Failure(cls, orig, msg, ref) ==
    [cls |-> cls, orig |-> orig, msg |-> msg, ref |-> ref]

\* sqlalchemy.exc.IntegrityError wrapping a foreign-key violation
FkViolation(msg) ==
    Failure("IntegrityError", "ForeignKeyViolationError", msg, Some(ReferencedTable))

\* sqlalchemy.exc.IntegrityError wrapping a primary-key violation
UniqueViolation ==
    Failure("IntegrityError", "UniqueViolationError", <<"duplicate key">>, None)

\* any storage failure that is no integrity violation
StorageFailure ==
    Failure("OperationalError", "ConnectionFailure", <<"connection lost">>, None)

\* what a session whose transaction failed answers until rollback() is called
PendingRollback ==
    Failure("PendingRollbackError", "None", <<"rollback pending">>, None)

\* a flushed UPDATE that matched no row
StaleData ==
    Failure("StaleDataError", "None", <<"matched 0 rows">>, None)

Cancelled ==
    Failure("CancelledError", "None", <<>>, None)

ValueErr(msg) ==
    Failure("ValueError", "None", msg, None)

\* a failure raised by the code of a transaction() block itself
BodyFailure ==
    Failure("RuntimeError", "None", <<"block failed">>, None)

NoFailure ==
    Failure("None", "None", <<>>, None)

\* asyncio.CancelledError derives from BaseException, not from Exception
IsException(f) == f.cls # "CancelledError"

IsIntegrityError(f) == f.cls = "IntegrityError"

IsForeignKeyViolation(f) == f.orig = "ForeignKeyViolationError"

---------------------------------------------------------------------------
(* Records and payloads *)

SchemaFields == {"id", "name", "fk"}

\* rows of the referenced table
Parents == {1}

DefaultStamp == "ts"
Unloaded == "unloaded"

\* payloads given to create and create_many: the explicitly set fields
CreatePayloads ==
    { [name |-> "a"],
      [name |-> "b", fk |-> Some(1)],
      [name |-> "a", fk |-> Some(2)],
      [id |-> Some(1), name |-> "a"],
      [id |-> Some(2), name |-> "b", fk |-> None] }

\* payloads given in a create_many batch
BatchPayloads ==
    { [name |-> "a"],
      [name |-> "b", fk |-> Some(2)],
      [id |-> Some(1), name |-> "b", fk |-> Some(1)] }

\* payloads given to update: the explicitly set fields
UpdatePayloads ==
    { [name |-> "b"],
      [fk |-> Some(1)],
      [fk |-> Some(2)],
      [name |-> "a", fk |-> None],
      [id |-> Some(2), name |-> "b"] }

\* item.model_dump(): every schema field, None where the payload left it unset
ModelDump(p) ==
    [f \in SchemaFields |-> IF f \in DOMAIN p THEN p[f] ELSE None]

\* model_dump() without exclude_unset: the unset fk is dumped as None
ModelDumpUnsetAsNone(p) ==
    [f \in DOMAIN p \cup {"fk"} |-> IF f \in DOMAIN p THEN p[f] ELSE None]

\* item.model_dump(exclude_unset=True): the explicitly set fields only
ModelDumpExcludeUnset(p) == p

\* self.orm_model(**fields): a transient entity; stamp is assigned by the store
Construct(fields) ==
    [id |-> fields.id, name |-> fields.name, fk |-> fields.fk, stamp |-> Unloaded]

\* setattr(db_item, key, value) for every item of update_data
SetAttrs(entity, updateData) ==
    [f \in DOMAIN entity |->
        IF f \in DOMAIN updateData THEN updateData[f] ELSE entity[f]]

IdsOf(rows) == {rows[k].id[1] : k \in DOMAIN rows}

RowIndex(rows, id) == CHOOSE k \in DOMAIN rows : rows[k].id[1] = id

\* result.scalar_one_or_none() of the select filtered by id
Lookup(rows, id) ==
    IF id \in IdsOf(rows) THEN Some(rows[RowIndex(rows, id)]) ELSE None

Remove(rows, k) ==
    [j \in 1..(Len(rows) - 1) |-> IF j < k THEN rows[j] ELSE rows[j + 1]]

\* the table with one more row, kept in primary-key order
Insert(rows, row) ==
    LET k == Cardinality({j \in DOMAIN rows : rows[j].id[1] < row.id[1]}) IN
    [j \in 1..(Len(rows) + 1) |->
        IF j <= k THEN rows[j] ELSE IF j = k + 1 THEN row ELSE rows[j - 1]]

\* the identifier the store generates for an insert that gives none
NextId(rows) ==
    IF rows = <<>> THEN 1
    ELSE (CHOOSE m \in IdsOf(rows) : \A x \in IdsOf(rows) : x <= m) + 1

FkOk(fk) == fk = None \/ fk[1] \in Parents

---------------------------------------------------------------------------
(* The session and the store behind it *)

\* what can happen at an await of the session
Faults == {"ok", "err", "cancel"}

CleanSession == [staged |-> <<>>, failed |-> FALSE]

\* the session after a statement failed: the store transaction is aborted,
\* the flushed and pending changes are discarded, rollback() is owed
FailedSession == [staged |-> <<>>, failed |-> TRUE]

\* session.add(entity)
SessionAdd(s, entity) ==
    [s EXCEPT !.staged = Append(@, [kind |-> "insert", row |-> entity])]

\* session.add_all(entities)
SessionAddAll(s, entities) ==
    [s EXCEPT !.staged =
        @ \o [k \in DOMAIN entities |-> [kind |-> "insert", row |-> entities[k]]]]

\* the pending UPDATE of an entity whose attributes were set
SessionDirty(s, id, updateData) ==
    [s EXCEPT !.staged = Append(@, [kind |-> "update", id |-> id, set |-> updateData])]

\* session.delete(entity)
SessionDelete(s, id) ==
    [s EXCEPT !.staged = Append(@, [kind |-> "delete", id |-> id])]

\* a rollback that leaves the session as it is
SessionKeeps(s) == s

\* session.rollback()
SessionRollback(s) == CleanSession

\* the staged changes applied to the rows, in order, inside one store
\* transaction: all of them, or the first constraint violation
RECURSIVE FlushFrom(_, _, _, _, _)
FlushFrom(rows, staged, i, ids, fkMsg) ==
    IF i > Len(staged) THEN [ok |-> TRUE, rows |-> rows, ids |-> ids]
    ELSE LET c == staged[i] IN
      IF c.kind = "insert" THEN
        LET id == IF c.row.id = None THEN NextId(rows) ELSE c.row.id[1]
            row == [id |-> Some(id), name |-> c.row.name, fk |-> c.row.fk,
                    stamp |-> DefaultStamp]
        IN  IF id \in IdsOf(rows) THEN [ok |-> FALSE, err |-> UniqueViolation]
            ELSE IF ~FkOk(row.fk) THEN [ok |-> FALSE, err |-> FkViolation(fkMsg)]
            ELSE FlushFrom(Insert(rows, row), staged, i + 1, Append(ids, id), fkMsg)
      ELSE IF c.id \notin IdsOf(rows) THEN
        \* the row is gone: an UPDATE that matches no row is an error, a
        \* DELETE that matches none only a warning
        IF c.kind = "update" THEN [ok |-> FALSE, err |-> StaleData]
        ELSE FlushFrom(rows, staged, i + 1, ids, fkMsg)
      ELSE IF c.kind = "update" THEN
        LET k == RowIndex(rows, c.id)
            row == SetAttrs(rows[k], c.set)
        IN  IF row.id[1] # c.id /\ row.id[1] \in IdsOf(rows)
            THEN [ok |-> FALSE, err |-> UniqueViolation]
            ELSE IF ~FkOk(row.fk) THEN [ok |-> FALSE, err |-> FkViolation(fkMsg)]
            ELSE FlushFrom(Insert(Remove(rows, k), row), staged, i + 1, ids, fkMsg)
      ELSE FlushFrom(Remove(rows, RowIndex(rows, c.id)), staged, i + 1, ids, fkMsg)

Flush(rows, staged, fkMsg) == FlushFrom(rows, staged, 1, <<>>, fkMsg)

\* the wordings the store may give the foreign-key violation of this flush
Diagnostics(rows, s) ==
    LET r == Flush(rows, s.staged, SqliteFkMessage) IN
    IF ~s.failed /\ ~r.ok /\ IsForeignKeyViolation(r.err)
    THEN FkMessages ELSE {SqliteFkMessage}

\* await session.commit(): flush, then COMMIT
Commit(rows, s, fault, fkMsg) ==
    IF s.failed THEN [ok |-> FALSE, err |-> PendingRollback, db |-> rows, sess |-> s]
    ELSE IF fault = "err"
    THEN [ok |-> FALSE, err |-> StorageFailure, db |-> rows, sess |-> FailedSession]
    ELSE LET r == Flush(rows, s.staged, fkMsg) IN
         IF r.ok
         THEN [ok |-> TRUE, db |-> r.rows, sess |-> CleanSession, ids |-> r.ids]
         ELSE [ok |-> FALSE, err |-> r.err, db |-> rows, sess |-> FailedSession]

\* await session.execute(select ...): autoflush, then the rows the session's
\* transaction sees
Execute(rows, s, fault, fkMsg) ==
    IF s.failed THEN [ok |-> FALSE, err |-> PendingRollback, sess |-> s]
    ELSE IF fault = "err"
    THEN [ok |-> FALSE, err |-> StorageFailure, sess |-> [s EXCEPT !.failed = TRUE]]
    ELSE LET r == Flush(rows, s.staged, fkMsg) IN
         IF r.ok
         THEN [ok |-> TRUE, view |-> r.rows, sess |-> s]
         ELSE [ok |-> FALSE, err |-> r.err, sess |-> FailedSession]

---------------------------------------------------------------------------
(* The caller's position and the records kept about finished operations *)

NoOp ==
    [name |-> "none", id |-> None, payloads |-> <<>>, db0 |-> <<>>,
     items |-> <<>>, at |-> "none"]

NoOutcome ==
    [op |-> "none", id |-> None, payloads |-> <<>>, db0 |-> <<>>,
     kind |-> "none", value |-> <<>>, failure |-> NoFailure, at |-> "none",
     cause |-> NoFailure]

NoTx ==
    [active |-> FALSE, autocommit |-> FALSE, n |-> 0, wrote |-> FALSE,
     db0 |-> <<>>, calls |-> <<>>]

NoTxOutcome ==
    [kind |-> "none", failure |-> NoFailure, escaped |-> NoFailure,
     autocommit |-> FALSE, calls |-> <<>>, db0 |-> <<>>, wrote |-> FALSE]

\* how the running operation ends: kind is "return" or "raise", at is the
\* step whose failure is raised, cause is the failure being handled when the
\* raise happens inside an except clause (the __context__ of the raised one)
Result(kind, value, failure, at) ==
    [op |-> op.name, id |-> op.id, payloads |-> op.payloads, db0 |-> op.db0,
     kind |-> kind, value |-> value, failure |-> failure, at |-> at,
     cause |-> exc]

\* how the running transaction() block ends
TxResult(kind, failure, escaped, txCalls) ==
    [kind |-> kind, failure |-> failure, escaped |-> escaped,
     autocommit |-> tx.autocommit, calls |-> txCalls, db0 |-> tx.db0,
     wrote |-> tx.wrote]

\* "except Exception" of transaction()
TransactionCatches(f) == IsException(f)

\* transaction() with the "if autocommit" test dropped
TransactionCommitsAlways(autocommit) == TRUE

\* "if autocommit" of transaction()
TransactionCommits(autocommit) == autocommit

\* the bare "raise" of transaction()'s handler
TransactionReraises(f) == f

\* the operations that write
Writes == {"create", "create_many", "update", "delete"}

\* the running operation goes on to its next step
Continue(newPc, newOp, newExc) ==
    /\ pc' = newPc
    /\ op' = newOp
    /\ exc' = newExc
    /\ UNCHANGED <<outcome, prev, tx, txOutcome, orm_model, other>>

\* the running operation ends; a failure raised inside a transaction() block
\* leaves the block, through its handler when the handler catches it
Finish(res) ==
    /\ UNCHANGED <<prev, orm_model, other>>
    /\ outcome' = res
    /\ op' = NoOp
    /\ IF res.kind = "raise" /\ tx.active
       THEN IF TransactionCatches(res.failure)
            THEN /\ pc' = "tx_except"
                 /\ exc' = res.failure
                 /\ UNCHANGED <<tx, txOutcome>>
            ELSE /\ pc' = "returned"
                 /\ exc' = NoFailure
                 /\ tx' = NoTx
                 /\ txOutcome' = TxResult("raise", res.failure, res.failure, tx.calls)
       ELSE /\ pc' = "returned"
            /\ exc' = NoFailure
            /\ tx' = IF tx.active
                     THEN [tx EXCEPT !.n = @ + 1,
                                     !.wrote = @ \/ res.op \in Writes]
                     ELSE tx
            /\ UNCHANGED txOutcome

HighestId(rows) ==
    LET ids == IdsOf(rows) \cup {0} IN CHOOSE m \in ids : \A x \in ids : x <= m

\* the store's generator stays within MaxId with n more generated identifiers
Room(n) == HighestId(db) + n <= MaxId

Generated(p) == IF "id" \in DOMAIN p /\ p.id # None THEN 0 ELSE 1

RECURSIVE GeneratedIn(_)
GeneratedIn(ps) ==
    IF ps = <<>> THEN 0 ELSE Generated(Head(ps)) + GeneratedIn(Tail(ps))

\* the calls a caller makes right on the result of the last one: get_by_id
\* on the entity a create returned (test_get_by_id), get_by_id or update
\* after a delete returned (test_delete), create after a create or
\* create_many failed on an integrity violation
Follows(name) ==
    \/ /\ name = "get_by_id"
       /\ outcome.op = "create"
       /\ outcome.kind = "return"
    \/ /\ name \in {"get_by_id", "update"}
       /\ outcome.op = "delete"
       /\ outcome.kind = "return"
    \/ /\ name = "create"
       /\ outcome.op \in {"create", "create_many"}
       /\ outcome.kind = "raise"
       /\ IsIntegrityError(outcome.cause)
    \/ /\ name = "get_all"
       /\ outcome.op = "get_all"
       /\ outcome.kind = "return"

\* a caller starts an operation between operations or right on the result of
\* the last one, inside a block while the block has operations left, on a
\* session that holds no staged change of an abandoned operation
CanStart(name) ==
    /\ \/ pc = "idle"
       \/ pc = "returned" /\ Follows(name)
    /\ sess.staged = <<>>
    /\ tx.active => tx.n < MaxBlockOps

LookupIds == 1..MaxId

Batches == UNION {[1..n -> BatchPayloads] : n \in 0..MaxBatch}

Start(name, id, payloads, items, firstPc, firstCalls) ==
    /\ CanStart(name)
    /\ pc' = firstPc
    /\ op' = [name |-> name, id |-> id, payloads |-> payloads, db0 |-> db,
              items |-> items, at |-> "none"]
    /\ calls' = firstCalls
    /\ outcome' = NoOutcome
    /\ prev' = IF pc = "returned" THEN outcome ELSE NoOutcome
    /\ txOutcome' = NoTxOutcome
    /\ UNCHANGED <<db, exc, tx, orm_model, other>>

\* entity descriptors: TestModel declares an `id` attribute; a descriptor
\* whose key column has another name declares none
WithId == [name |-> "TestModel", has_id |-> TRUE]
WithoutId == [name |-> "Keyed", has_id |-> FALSE]

\* a lookup that takes the identifier attribute for granted
HasAttrIdAlways(model) == TRUE

\* hasattr(self.orm_model, "id")
HasAttrId(model) == model.has_id

\* AttributeError(f"{self.orm_model.__name__} must have an 'id' attribute")
MissingId(model) ==
    Failure("AttributeError", "None",
            <<model.name, " must have an 'id' attribute">>, None)

\* what a caller holds of its own while it is suspended: its session and its
\* position in its operation
Context(s, p, o, e, c, r, pv) ==
    [sess |-> s, pc |-> p, op |-> o, exc |-> e, calls |-> c, outcome |-> r,
     prev |-> pv]

\* a caller between operations on a fresh session
IdleCaller ==
    Context(CleanSession, "idle", NoOp, NoFailure, <<>>, NoOutcome, NoOutcome)

---------------------------------------------------------------------------
(* get_by_id *)

\* get_by_id once its execute answered: the row found, or the failure
GetById(rows, s, id, fault, fkMsg) ==
    LET r == Execute(rows, s, fault, fkMsg) IN
    IF r.ok
    THEN [ok |-> TRUE, found |-> Lookup(r.view, id), sess |-> r.sess]
    ELSE [ok |-> FALSE, err |-> r.err, sess |-> r.sess]

GetByIdStart(id) ==
    /\ Start("get_by_id", Some(id), <<>>, <<>>, "get_by_id_execute", <<>>)
    /\ UNCHANGED sess

GetByIdExecute ==
    /\ pc = "get_by_id_execute"
    /\ UNCHANGED db
    /\ IF ~HasAttrId(orm_model)
       THEN /\ UNCHANGED <<sess, calls>>
            /\ Finish(Result("raise", <<>>, MissingId(orm_model), "hasattr"))
       ELSE
       /\ calls' = Append(calls, "execute")
       /\ \E fault \in Faults, m \in Diagnostics(db, sess) :
         IF fault = "cancel"
         THEN /\ UNCHANGED sess
              /\ Finish(Result("raise", <<>>, Cancelled, "execute"))
         ELSE LET r == GetById(db, sess, op.id[1], fault, m) IN
              /\ sess' = r.sess
              /\ IF r.ok
                 THEN Finish(Result("return", r.found, NoFailure, "none"))
                 ELSE Finish(Result("raise", <<>>, r.err, "execute"))

---------------------------------------------------------------------------
(* get_all *)

\* the orders in which the store may hand out the rows of a select that has
\* no ORDER BY
ScanOrders(rows) ==
    {o \in [DOMAIN rows -> {rows[k] : k \in DOMAIN rows}] :
        \A k \in DOMAIN rows : \E j \in DOMAIN o : o[j] = rows[k]}

\* .offset(skip).limit(limit) on the rows in the order they are handed out
OffsetLimit(rows, skip, limit) ==
    IF skip >= Len(rows) THEN <<>>
    ELSE SubSeq(rows, skip + 1,
                IF skip + limit < Len(rows) THEN skip + limit ELSE Len(rows))

\* the arguments of get_all
Skips == 0..(MaxId + 1)
Limits == 0..MaxId

\* get_all once its execute answered: the page, or the failure
GetAll(rows, s, skip, limit, order, fault, fkMsg) ==
    LET r == Execute(rows, s, fault, fkMsg) IN
    IF r.ok
    THEN [ok |-> TRUE, page |-> OffsetLimit(order, skip, limit), sess |-> r.sess]
    ELSE [ok |-> FALSE, err |-> r.err, sess |-> r.sess]

\* get_all(skip, limit); a caller that pages through the table asks, right
\* after a page, for the next one
GetAllStart(skip, limit) ==
    /\ pc = "returned" =>
         /\ outcome.op = "get_all"
         /\ limit = outcome.payloads[1].limit
         /\ skip = outcome.payloads[1].skip + limit
    /\ Start("get_all", None, <<[skip |-> skip, limit |-> limit]>>, <<>>,
             "get_all_execute", <<>>)
    /\ UNCHANGED sess

GetAllExecute ==
    /\ pc = "get_all_execute"
    /\ calls' = Append(calls, "execute")
    /\ UNCHANGED db
    /\ \E fault \in Faults, order \in ScanOrders(db) :
         IF fault = "cancel"
         THEN /\ UNCHANGED sess
              /\ Finish(Result("raise", <<>>, Cancelled, "execute"))
         ELSE LET r == GetAll(db, sess, op.payloads[1].skip,
                             op.payloads[1].limit, order, fault, SqliteFkMessage) IN
              /\ sess' = r.sess
              /\ IF r.ok
                 THEN Finish(Result("return", r.page, NoFailure, "none"))
                 ELSE Finish(Result("raise", <<>>, r.err, "execute"))

---------------------------------------------------------------------------
(* create and create_many *)

\* "except IntegrityError" of create and create_many
CatchesIntegrityError(f) == IsIntegrityError(f)

\* a handler that translates every integrity violation it catches
TranslatedAlways(f) ==
    LET tableName == TableNameFromMessage(f.msg) IN
    IF tableName # None
    THEN ValueErr(Formatted(tableName[1]) \o IdDoesNotExist)
    ELSE ValueErr(<<"None">> \o IdDoesNotExist)

\* what the handler of create and create_many raises after its rollback
Translated(f) ==
    IF IsForeignKeyViolation(f)
    THEN LET tableName == TableNameFromMessage(f.msg) IN
         IF tableName # None
         THEN ValueErr(Formatted(tableName[1]) \o IdDoesNotExist)
         ELSE f
    ELSE f

\* the in-memory entities after a flush gave the last inserts their identifiers
WithIds(items, ids) ==
    [k \in DOMAIN items |->
        [items[k] EXCEPT !.id = Some(ids[Len(ids) - Len(items) + k])]]

\* a failure raised inside the try of create or create_many
RaisedInTry(f, at, handlerPc) ==
    IF CatchesIntegrityError(f)
    THEN Continue(handlerPc, [op EXCEPT !.at = at], f)
    ELSE Finish(Result("raise", <<>>, f, at))

CreateStart(p) ==
    LET actual_item == Construct(ModelDump(p)) IN
    /\ Start("create", None, <<p>>, <<actual_item>>, "create_commit", <<"add">>)
    /\ Room(Generated(p))
    /\ sess' = SessionAdd(sess, actual_item)

CreateCommit ==
    /\ pc = "create_commit"
    /\ calls' = Append(calls, "commit")
    /\ \E fault \in Faults, m \in Diagnostics(db, sess) :
         IF fault = "cancel"
         THEN /\ UNCHANGED <<db, sess>>
              /\ Finish(Result("raise", <<>>, Cancelled, "commit"))
         ELSE LET r == Commit(db, sess, fault, m) IN
              /\ db' = r.db
              /\ sess' = r.sess
              /\ IF r.ok
                 THEN Continue("create_refresh",
                               [op EXCEPT !.items = WithIds(@, r.ids)], exc)
                 ELSE RaisedInTry(r.err, "commit", "create_except")

\* create that returns the entity without the refresh
CreateWithoutRefresh ==
    /\ pc = "create_refresh"
    /\ UNCHANGED <<db, sess, calls>>
    /\ Finish(Result("return", <<op.items[1]>>, NoFailure, "none"))

CreateRefresh ==
    /\ pc = "create_refresh"
    /\ calls' = Append(calls, "refresh")
    /\ UNCHANGED db
    /\ \E fault \in Faults, m \in Diagnostics(db, sess) :
         IF fault = "cancel"
         THEN /\ UNCHANGED sess
              /\ Finish(Result("raise", <<>>, Cancelled, "refresh"))
         ELSE LET r == GetById(db, sess, op.items[1].id[1], fault, m) IN
              /\ sess' = r.sess
              /\ IF r.ok
                 THEN Finish(Result("return", r.found, NoFailure, "none"))
                 ELSE RaisedInTry(r.err, "refresh", "create_except")

CreateExcept ==
    /\ pc = "create_except"
    /\ calls' = Append(calls, "rollback")
    /\ sess' = SessionRollback(sess)
    /\ UNCHANGED db
    /\ Finish(Result("raise", <<>>, Translated(exc), op.at))

CreateManyStart(items) ==
    LET actual_items == [k \in DOMAIN items |-> Construct(ModelDump(items[k]))] IN
    /\ Start("create_many", None, items, actual_items, "create_many_commit",
             <<"add_all">>)
    /\ Room(GeneratedIn(items))
    /\ sess' = SessionAddAll(sess, actual_items)

\* the rows after committing the staged changes one at a time, up to the
\* first that fails
RECURSIVE CommittedPrefix(_, _, _)
CommittedPrefix(rows, staged, fkMsg) ==
    IF staged = <<>> THEN rows
    ELSE LET r == Flush(rows, <<Head(staged)>>, fkMsg) IN
         IF r.ok THEN CommittedPrefix(r.rows, Tail(staged), fkMsg) ELSE rows

\* create_many as one insert and commit per item
CreateManyCommitEach ==
    /\ pc = "create_many_commit"
    /\ calls' = Append(calls, "commit")
    /\ \E m \in Diagnostics(db, sess) :
         LET r == Commit(db, sess, "ok", m) IN
         /\ db' = CommittedPrefix(db, sess.staged, m)
         /\ sess' = r.sess
         /\ IF r.ok
            THEN Finish(Result("return", WithIds(op.items, r.ids),
                               NoFailure, "none"))
            ELSE RaisedInTry(r.err, "commit", "create_many_except")

\* create_many that returns the entities last first
CreateManyCommitReversed ==
    /\ pc = "create_many_commit"
    /\ calls' = Append(calls, "commit")
    /\ \E fault \in Faults, m \in Diagnostics(db, sess) :
         IF fault = "cancel"
         THEN /\ UNCHANGED <<db, sess>>
              /\ Finish(Result("raise", <<>>, Cancelled, "commit"))
         ELSE LET r == Commit(db, sess, fault, m)
                  n == Len(op.items) IN
              /\ db' = r.db
              /\ sess' = r.sess
              /\ IF r.ok
                 THEN Finish(Result("return",
                        [k \in 1..n |-> WithIds(op.items, r.ids)[n + 1 - k]],
                        NoFailure, "none"))
                 ELSE RaisedInTry(r.err, "commit", "create_many_except")

CreateManyCommit ==
    /\ pc = "create_many_commit"
    /\ calls' = Append(calls, "commit")
    /\ \E fault \in Faults, m \in Diagnostics(db, sess) :
         IF fault = "cancel"
         THEN /\ UNCHANGED <<db, sess>>
              /\ Finish(Result("raise", <<>>, Cancelled, "commit"))
         ELSE LET r == Commit(db, sess, fault, m) IN
              /\ db' = r.db
              /\ sess' = r.sess
              /\ IF r.ok
                 THEN Finish(Result("return", WithIds(op.items, r.ids),
                                    NoFailure, "none"))
                 ELSE RaisedInTry(r.err, "commit", "create_many_except")

CreateManyExcept ==
    /\ pc = "create_many_except"
    /\ calls' = Append(calls, "rollback")
    /\ sess' = SessionRollback(sess)
    /\ UNCHANGED db
    /\ Finish(Result("raise", <<>>, Translated(exc), op.at))

---------------------------------------------------------------------------
(* update and delete *)

\* the message without the identifier
NotFoundMessageWithoutId(id) == <<"Item not found">>

\* f"Item with id {id} not found"
NotFoundMessage(id) == <<"Item with id ", IdStr(id), " not found">>

\* the lookup that opens update and delete: the failure it ends the
\* operation with, if any
LookupFailure(r, id) ==
    IF ~r.ok THEN Some(r.err)
    ELSE IF r.found = None THEN Some(ValueErr(NotFoundMessage(id)))
    ELSE None

UpdateStart(id, item) ==
    /\ Start("update", Some(id), <<item>>, <<>>, "update_lookup", <<>>)
    /\ UNCHANGED sess

UpdateLookup ==
    /\ pc = "update_lookup"
    /\ UNCHANGED db
    /\ IF ~HasAttrId(orm_model)
       THEN /\ UNCHANGED <<sess, calls>>
            /\ Finish(Result("raise", <<>>, MissingId(orm_model), "hasattr"))
       ELSE
       /\ calls' = Append(calls, "execute")
       /\ \E fault \in Faults, m \in Diagnostics(db, sess) :
         IF fault = "cancel"
         THEN /\ UNCHANGED sess
              /\ Finish(Result("raise", <<>>, Cancelled, "lookup"))
         ELSE LET r == GetById(db, sess, op.id[1], fault, m)
                  failed == LookupFailure(r, op.id[1])
                  update_data == ModelDumpExcludeUnset(op.payloads[1])
              IN  IF failed # None
                  THEN /\ sess' = r.sess
                       /\ Finish(Result("raise", <<>>, failed[1], "lookup"))
                  ELSE /\ sess' = SessionDirty(r.sess, op.id[1], update_data)
                       /\ Continue("update_commit",
                            [op EXCEPT !.items = <<SetAttrs(r.found[1], update_data)>>],
                            exc)

UpdateCommit ==
    /\ pc = "update_commit"
    /\ calls' = Append(calls, "commit")
    /\ \E fault \in Faults, m \in Diagnostics(db, sess) :
         IF fault = "cancel"
         THEN /\ UNCHANGED <<db, sess>>
              /\ Finish(Result("raise", <<>>, Cancelled, "commit"))
         ELSE LET r == Commit(db, sess, fault, m) IN
              /\ db' = r.db
              /\ sess' = r.sess
              /\ IF r.ok
                 THEN Continue("update_refresh", op, exc)
                 ELSE Finish(Result("raise", <<>>, r.err, "commit"))

UpdateRefresh ==
    /\ pc = "update_refresh"
    /\ calls' = Append(calls, "refresh")
    /\ UNCHANGED db
    /\ \E fault \in Faults, m \in Diagnostics(db, sess) :
         IF fault = "cancel"
         THEN /\ UNCHANGED sess
              /\ Finish(Result("raise", <<>>, Cancelled, "refresh"))
         ELSE LET r == GetById(db, sess, op.items[1].id[1], fault, m) IN
              /\ sess' = r.sess
              /\ IF r.ok
                 THEN Finish(Result("return", r.found, NoFailure, "none"))
                 ELSE Finish(Result("raise", <<>>, r.err, "refresh"))

DeleteStart(id) ==
    /\ Start("delete", Some(id), <<>>, <<>>, "delete_lookup", <<>>)
    /\ UNCHANGED sess

DeleteLookup ==
    /\ pc = "delete_lookup"
    /\ UNCHANGED db
    /\ IF ~HasAttrId(orm_model)
       THEN /\ UNCHANGED <<sess, calls>>
            /\ Finish(Result("raise", <<>>, MissingId(orm_model), "hasattr"))
       ELSE
       /\ calls' = Append(calls, "execute")
       /\ \E fault \in Faults, m \in Diagnostics(db, sess) :
         IF fault = "cancel"
         THEN /\ UNCHANGED sess
              /\ Finish(Result("raise", <<>>, Cancelled, "lookup"))
         ELSE LET r == GetById(db, sess, op.id[1], fault, m)
                  failed == LookupFailure(r, op.id[1])
              IN  /\ sess' = r.sess
                  /\ IF failed # None
                     THEN Finish(Result("raise", <<>>, failed[1], "lookup"))
                     ELSE Continue("delete_delete",
                                   [op EXCEPT !.items = r.found], exc)

DeleteDelete ==
    /\ pc = "delete_delete"
    /\ calls' = Append(calls, "delete")
    /\ UNCHANGED db
    /\ \E fault \in Faults :
         IF fault = "cancel"
         THEN /\ UNCHANGED sess
              /\ Finish(Result("raise", <<>>, Cancelled, "delete"))
         ELSE IF fault = "err"
         THEN /\ sess' = [sess EXCEPT !.failed = TRUE]
              /\ Finish(Result("raise", <<>>, StorageFailure, "delete"))
         ELSE /\ sess' = SessionDelete(sess, op.id[1])
              /\ Continue("delete_commit", op, exc)

DeleteCommit ==
    /\ pc = "delete_commit"
    /\ calls' = Append(calls, "commit")
    /\ \E fault \in Faults, m \in Diagnostics(db, sess) :
         IF fault = "cancel"
         THEN /\ UNCHANGED <<db, sess>>
              /\ Finish(Result("raise", <<>>, Cancelled, "commit"))
         ELSE LET r == Commit(db, sess, fault, m) IN
              /\ db' = r.db
              /\ sess' = r.sess
              /\ IF r.ok
                 THEN Finish(Result("return", <<>>, NoFailure, "none"))
                 ELSE Finish(Result("raise", <<>>, r.err, "commit"))

---------------------------------------------------------------------------
(* transaction *)

\* "async with repository.transaction(autocommit):" is entered
TransactionEnter(autocommit) ==
    /\ pc = "idle"
    /\ ~tx.active
    /\ sess.staged = <<>>
    /\ tx' = [active |-> TRUE, autocommit |-> autocommit, n |-> 0,
              wrote |-> FALSE, db0 |-> db, calls |-> <<>>]
    /\ outcome' = NoOutcome
    /\ prev' = NoOutcome
    /\ txOutcome' = NoTxOutcome
    /\ UNCHANGED <<db, sess, pc, op, exc, calls, orm_model, other>>

\* the code of the block raises a failure of its own
TransactionBodyRaises ==
    /\ pc = "idle"
    /\ tx.active
    /\ pc' = "tx_except"
    /\ exc' = BodyFailure
    /\ UNCHANGED <<db, sess, op, calls, outcome, prev, tx, txOutcome,
                   orm_model, other>>

\* the block ends normally: control returns to transaction() after its yield
TransactionExit ==
    /\ pc = "idle"
    /\ tx.active
    /\ IF TransactionCommits(tx.autocommit)
       THEN /\ pc' = "tx_commit"
            /\ UNCHANGED <<tx, txOutcome>>
       ELSE /\ pc' = "returned"
            /\ tx' = NoTx
            /\ txOutcome' = TxResult("return", NoFailure, NoFailure, tx.calls)
    /\ UNCHANGED <<db, sess, op, exc, calls, outcome, prev, orm_model, other>>

TransactionCommit ==
    /\ pc = "tx_commit"
    /\ UNCHANGED <<op, calls, outcome, prev, orm_model, other>>
    /\ \E fault \in Faults, m \in Diagnostics(db, sess) :
         LET txCalls == Append(tx.calls, "commit") IN
         IF fault = "cancel"
         THEN /\ UNCHANGED <<db, sess, exc>>
              /\ pc' = "returned"
              /\ tx' = NoTx
              /\ txOutcome' = TxResult("raise", Cancelled, Cancelled, txCalls)
         ELSE LET r == Commit(db, sess, fault, m) IN
              /\ db' = r.db
              /\ sess' = r.sess
              /\ IF r.ok
                 THEN /\ pc' = "returned"
                      /\ tx' = NoTx
                      /\ txOutcome' = TxResult("return", NoFailure, NoFailure, txCalls)
                      /\ UNCHANGED exc
                 ELSE IF TransactionCatches(r.err)
                 THEN /\ pc' = "tx_except"
                      /\ exc' = r.err
                      /\ tx' = [tx EXCEPT !.calls = txCalls]
                      /\ UNCHANGED txOutcome
                 ELSE /\ pc' = "returned"
                      /\ tx' = NoTx
                      /\ txOutcome' = TxResult("raise", r.err, r.err, txCalls)
                      /\ UNCHANGED exc

\* a handler that closes the session after its rollback
TransactionExceptCloses ==
    /\ pc = "tx_except"
    /\ sess' = SessionRollback(sess)
    /\ pc' = "returned"
    /\ exc' = NoFailure
    /\ tx' = NoTx
    /\ txOutcome' = TxResult("raise", TransactionReraises(exc), exc,
                             tx.calls \o <<"rollback", "close">>)
    /\ UNCHANGED <<db, op, calls, outcome, prev, orm_model, other>>

\* "except Exception: await self.session.rollback(); raise"
TransactionExcept ==
    /\ pc = "tx_except"
    /\ sess' = SessionRollback(sess)
    /\ pc' = "returned"
    /\ exc' = NoFailure
    /\ tx' = NoTx
    /\ txOutcome' = TxResult("raise", TransactionReraises(exc), exc,
                             Append(tx.calls, "rollback"))
    /\ UNCHANGED <<db, op, calls, outcome, prev, orm_model, other>>

\* the event loop leaves the running caller, suspended at its await or done
\* with its call, and resumes the other caller, who has a session of its own
\* on the same store
Switch ==
    /\ ~tx.active
    /\ other' = Context(sess, pc, op, exc, calls, outcome, prev)
    /\ sess' = other.sess
    /\ pc' = other.pc
    /\ op' = other.op
    /\ exc' = other.exc
    /\ calls' = other.calls
    /\ outcome' = other.outcome
    /\ prev' = other.prev
    /\ UNCHANGED <<db, tx, txOutcome, orm_model>>

\* the caller has taken the result or the failure and goes on
Proceed ==
    /\ pc = "returned"
    /\ pc' = "idle"
    /\ calls' = <<>>
    /\ outcome' = NoOutcome
    /\ prev' = NoOutcome
    /\ txOutcome' = NoTxOutcome
    /\ UNCHANGED <<db, sess, op, exc, tx, orm_model, other>>

\* the owner of the session closes it and binds a fresh one to the repository
SessionReplaced ==
    /\ pc = "idle"
    /\ ~tx.active
    /\ sess # CleanSession
    /\ sess' = CleanSession
    /\ UNCHANGED <<db, pc, op, exc, calls, outcome, prev, tx, txOutcome,
                   orm_model, other>>

---------------------------------------------------------------------------
(* The specification *)

Init ==
    /\ db = <<>>
    /\ sess = CleanSession
    /\ pc = "idle"
    /\ op = NoOp
    /\ exc = NoFailure
    /\ calls = <<>>
    /\ outcome = NoOutcome
    /\ prev = NoOutcome
    /\ tx = NoTx
    /\ txOutcome = NoTxOutcome
    /\ orm_model = WithId
    /\ other = IdleCaller

Next ==
    \/ \E id \in LookupIds : GetByIdStart(id)
    \/ GetByIdExecute
    \/ \E p \in CreatePayloads : CreateStart(p)
    \/ CreateCommit
    \/ CreateRefresh
    \/ CreateExcept
    \/ \E items \in Batches : CreateManyStart(items)
    \/ CreateManyCommit
    \/ CreateManyExcept
    \/ \E id \in LookupIds, item \in UpdatePayloads : UpdateStart(id, item)
    \/ UpdateLookup
    \/ UpdateCommit
    \/ UpdateRefresh
    \/ \E id \in LookupIds : DeleteStart(id)
    \/ DeleteLookup
    \/ DeleteDelete
    \/ DeleteCommit
    \/ \E autocommit \in BOOLEAN : TransactionEnter(autocommit)
    \/ TransactionBodyRaises
    \/ TransactionExit
    \/ TransactionCommit
    \/ TransactionExcept
    \/ Proceed
    \/ SessionReplaced

Spec == Init /\ [][Next]_vars

\* a caller that fills the table and pages through it with get_all
NextPages ==
    \/ \E p \in CreatePayloads : CreateStart(p)
    \/ CreateCommit
    \/ CreateRefresh
    \/ CreateExcept
    \/ \E skip \in Skips, limit \in Limits : GetAllStart(skip, limit)
    \/ GetAllExecute
    \/ Proceed
    \/ SessionReplaced

SpecPages == Init /\ [][NextPages]_vars

\* tables a repository may be constructed over; the rows keep their key in
\* the field the model calls id, whatever the descriptor names it
SeedStores ==
    { <<>>,
      <<[id |-> Some(1), name |-> "a", fk |-> None, stamp |-> DefaultStamp]>>,
      <<[id |-> Some(1), name |-> "a", fk |-> None, stamp |-> DefaultStamp],
        [id |-> Some(2), name |-> "b", fk |-> Some(1), stamp |-> DefaultStamp]>> }

\* a repository constructed with a descriptor that declares no `id`
InitNoId ==
    /\ db \in SeedStores
    /\ sess = CleanSession
    /\ pc = "idle"
    /\ op = NoOp
    /\ exc = NoFailure
    /\ calls = <<>>
    /\ outcome = NoOutcome
    /\ prev = NoOutcome
    /\ tx = NoTx
    /\ txOutcome = NoTxOutcome
    /\ orm_model = WithoutId
    /\ other = IdleCaller

\* the identifier-based operations, alone and inside transaction() blocks
NextNoId ==
    \/ \E id \in LookupIds : GetByIdStart(id)
    \/ GetByIdExecute
    \/ \E id \in LookupIds, item \in UpdatePayloads : UpdateStart(id, item)
    \/ UpdateLookup
    \/ \E id \in LookupIds : DeleteStart(id)
    \/ DeleteLookup
    \/ \E autocommit \in BOOLEAN : TransactionEnter(autocommit)
    \/ TransactionBodyRaises
    \/ TransactionExit
    \/ TransactionCommit
    \/ TransactionExcept
    \/ Proceed

SpecNoId == InitNoId /\ [][NextNoId]_vars

\* two repositories, each over a session of its own, on one table
InitTwo ==
    /\ db \in SeedStores
    /\ sess = CleanSession
    /\ pc = "idle"
    /\ op = NoOp
    /\ exc = NoFailure
    /\ calls = <<>>
    /\ outcome = NoOutcome
    /\ prev = NoOutcome
    /\ tx = NoTx
    /\ txOutcome = NoTxOutcome
    /\ orm_model = WithId
    /\ other = IdleCaller

\* two callers that each make one call, update or delete, interleaved at
\* their awaits
NextTwo ==
    \/ \E id \in LookupIds, item \in UpdatePayloads : UpdateStart(id, item)
    \/ UpdateLookup
    \/ UpdateCommit
    \/ UpdateRefresh
    \/ \E id \in LookupIds : DeleteStart(id)
    \/ DeleteLookup
    \/ DeleteDelete
    \/ DeleteCommit
    \/ Switch

SpecTwo == InitTwo /\ [][NextTwo]_vars

\* a caller that creates records, one by one and in batches, reads them
\* back, and groups its calls in transaction() blocks
NextCreates ==
    \/ \E id \in LookupIds : GetByIdStart(id)
    \/ GetByIdExecute
    \/ \E p \in CreatePayloads : CreateStart(p)
    \/ CreateCommit
    \/ CreateRefresh
    \/ CreateExcept
    \/ \E items \in Batches : CreateManyStart(items)
    \/ CreateManyCommit
    \/ CreateManyExcept
    \/ \E autocommit \in BOOLEAN : TransactionEnter(autocommit)
    \/ TransactionBodyRaises
    \/ TransactionExit
    \/ TransactionCommit
    \/ TransactionExcept
    \/ Proceed
    \/ SessionReplaced

SpecCreates == Init /\ [][NextCreates]_vars

\* a caller that creates records and then updates and deletes them
NextWrites ==
    \/ \E p \in CreatePayloads : CreateStart(p)
    \/ CreateCommit
    \/ CreateRefresh
    \/ CreateExcept
    \/ \E id \in LookupIds, item \in UpdatePayloads : UpdateStart(id, item)
    \/ UpdateLookup
    \/ UpdateCommit
    \/ UpdateRefresh
    \/ \E id \in LookupIds : DeleteStart(id)
    \/ DeleteLookup
    \/ DeleteDelete
    \/ DeleteCommit
    \/ Proceed
    \/ SessionReplaced

SpecWrites == Init /\ [][NextWrites]_vars

\* every operation of the repository, run once over each table of
\* SeedStores, alone or as the first call of a transaction() block, with the
\* calls that may follow it; an empty block runs to its final commit
NextSession ==
    \/ \E id \in LookupIds : GetByIdStart(id)
    \/ GetByIdExecute
    \/ \E skip \in Skips, limit \in Limits : GetAllStart(skip, limit)
    \/ GetAllExecute
    \/ \E p \in CreatePayloads : CreateStart(p)
    \/ CreateCommit
    \/ CreateRefresh
    \/ CreateExcept
    \/ \E items \in Batches : CreateManyStart(items)
    \/ CreateManyCommit
    \/ CreateManyExcept
    \/ \E id \in LookupIds, item \in UpdatePayloads : UpdateStart(id, item)
    \/ UpdateLookup
    \/ UpdateCommit
    \/ UpdateRefresh
    \/ \E id \in LookupIds : DeleteStart(id)
    \/ DeleteLookup
    \/ DeleteDelete
    \/ DeleteCommit
    \/ \E autocommit \in BOOLEAN : TransactionEnter(autocommit)
    \/ TransactionBodyRaises
    \/ TransactionExit
    \/ TransactionCommit
    \/ TransactionExcept

SpecSession == InitTwo /\ [][NextSession]_vars

---------------------------------------------------------------------------
(* Properties *)

Range(f) == {f[k] : k \in DOMAIN f}

Creates == {"create", "create_many"}

\* the rows of d that d0 does not hold
NewRows(d0, d) == {k \in DOMAIN d : d[k] \notin Range(d0)}

\* row carries the field values of payload p
Carries(row, p) ==
    /\ row.name = p.name
    /\ row.fk = ModelDump(p).fk
    /\ ModelDump(p).id # None => row.id = p.id

\* the store d holds, beside every row of d0, a record of every payload of
\* the batch or of none
AllOrNone(d0, d, items) ==
    /\ Range(d0) \subseteq Range(d)
    /\ Cardinality(NewRows(d0, d)) \in {0, Len(items)}
    /\ Cardinality(NewRows(d0, d)) = Len(items) =>
         \A j \in DOMAIN items : \E k \in NewRows(d0, d) : Carries(d[k], items[j])

\* C1: while create_many runs and after it returned or failed, the store
\* holds all of the batch's records or none of them, never a part of them
C1_CreateManyAtomic ==
    /\ op.name = "create_many" => AllOrNone(op.db0, db, op.payloads)
    /\ outcome.op = "create_many" =>
         /\ AllOrNone(outcome.db0, db, outcome.payloads)
         /\ outcome.kind = "return" =>
              Cardinality(NewRows(outcome.db0, db)) = Len(outcome.payloads)

\* a batch whose first payload is valid and whose second violates a
\* constraint has failed at its commit
C1_Witness ==
    /\ pc = "returned"
    /\ outcome.op = "create_many"
    /\ outcome.kind = "raise"
    /\ outcome.at = "commit"
    /\ IsIntegrityError(outcome.cause)
    /\ Len(outcome.payloads) = 2
    /\ outcome.payloads[1] = [name |-> "a"]
    /\ db = outcome.db0

\* C2: a block that ends normally is committed by transaction() iff
\* autocommit; a failure that leaves the block, the final commit's included,
\* is answered by a rollback and then raised again unchanged
C2_TransactionCommitOrRollback ==
    /\ txOutcome.kind = "return" =>
         txOutcome.calls = IF txOutcome.autocommit THEN <<"commit">> ELSE <<>>
    /\ txOutcome.kind = "raise" /\ IsException(txOutcome.escaped) =>
         /\ txOutcome.calls # <<>>
         /\ txOutcome.calls[Len(txOutcome.calls)] = "rollback"
         /\ txOutcome.failure = txOutcome.escaped
         /\ sess = CleanSession

\* the final commit of an autocommit block failed and was rolled back
C2_Witness ==
    /\ pc = "returned"
    /\ txOutcome.kind = "raise"
    /\ txOutcome.autocommit
    /\ txOutcome.calls = <<"commit", "rollback">>
    /\ txOutcome.failure = StorageFailure

\* C3 (as claimed): a block left by a failure after one of its writes
\* completed leaves the store as it was before the block
C3_BlockNeverHalfApplied ==
    txOutcome.kind = "raise" /\ IsException(txOutcome.escaped) /\ txOutcome.wrote
        => db = txOutcome.db0

\* C4 (as claimed): a write operation that fails at its add/delete, commit or
\* refresh step with a storage failure has rolled the session back before
\* the failure reaches the caller
C4_WriteFailureRollsBack ==
    /\ outcome.kind = "raise"
    /\ outcome.op \in Writes
    /\ outcome.at \in {"delete", "commit", "refresh"}
    /\ IsException(outcome.failure)
    => /\ "rollback" \in Range(calls)
       /\ sess = CleanSession \/ pc # "returned"

\* C5 (as claimed): a write operation or a transaction() block cancelled at
\* an await has rolled the session back before the cancellation propagates,
\* and leaves nothing staged
C5_CancellationRollsBack ==
    /\ outcome.kind = "raise" /\ outcome.op \in Writes
         /\ outcome.failure = Cancelled /\ pc = "returned"
       => "rollback" \in Range(calls) /\ sess.staged = <<>>
    /\ txOutcome.kind = "raise" /\ txOutcome.failure = Cancelled
       => "rollback" \in Range(txOutcome.calls)

\* the fields of a stored record
RowFields == {"id", "name", "fk", "stamp"}

\* C6: an update that returned changed, in the record it names, exactly the
\* fields its payload sets, to the payload's values, and left every other
\* field of it and every other record as they were
C6_PartialUpdate ==
    outcome.op = "update" /\ outcome.kind = "return" =>
        LET p == outcome.payloads[1]
            old == Lookup(outcome.db0, outcome.id[1])[1]
            newId == IF "id" \in DOMAIN p THEN p.id[1] ELSE outcome.id[1]
            new == Lookup(db, newId)
        IN  /\ new # None
            /\ \A f \in DOMAIN p : new[1][f] = p[f]
            /\ \A f \in RowFields \ DOMAIN p : new[1][f] = old[f]
            /\ Len(db) = Len(outcome.db0)
            /\ \A k \in DOMAIN outcome.db0 :
                 outcome.db0[k].id[1] # outcome.id[1] => outcome.db0[k] \in Range(db)

\* an update of the name alone returned for a record with a foreign key
\* set, beside another record
C6_Witness ==
    /\ pc = "returned"
    /\ outcome.op = "update"
    /\ outcome.kind = "return"
    /\ outcome.payloads[1] = [name |-> "b"]
    /\ Len(outcome.db0) = 2
    /\ Lookup(outcome.db0, outcome.id[1])[1].name = "a"
    /\ Lookup(outcome.db0, outcome.id[1])[1].fk = Some(1)

\* the failures of the lookup itself
LookupFailures == {StorageFailure, PendingRollback, Cancelled}

\* C7: update and delete of an identifier that matches no record fail, with
\* "Item with id <id> not found" once the lookup answered, issue no commit
\* and leave the stored records as they were
C7_NotFound ==
    /\ outcome.op \in {"update", "delete"}
    /\ outcome.kind # "none"
    /\ outcome.id[1] \notin IdsOf(outcome.db0)
    => /\ outcome.kind = "raise"
       /\ \/ outcome.failure =
               ValueErr(<<"Item with id ", Digits[outcome.id[1]], " not found">>)
          \/ outcome.failure \in LookupFailures
       /\ "commit" \notin Range(calls)
       /\ db = outcome.db0

\* a delete of a missing identifier failed with NotFound beside a stored record
C7_Witness ==
    /\ pc = "returned"
    /\ outcome.op = "delete"
    /\ outcome.failure.cls = "ValueError"
    /\ outcome.db0 # <<>>
    /\ db = outcome.db0

\* the referenced table's name with every underscore replaced by a space
ReferencedPhrase == <<"a", "p", "p", " ", "u", "s", "e", "r">>

\* C8 (as claimed): a foreign-key violation of create or create_many whose
\* diagnostic quotes table identifiers fails with
\* "<referenced table, spaced> id does not exist"
C8_ForeignKeyNamesReferencedTable ==
    /\ outcome.op \in Creates
    /\ outcome.kind = "raise"
    /\ IsForeignKeyViolation(outcome.cause)
    /\ TableNameFromMessage(outcome.cause.msg) # None
    => outcome.failure = ValueErr(ReferencedPhrase \o <<" id does not exist">>)

\* C9: a failure of create or create_many reaches the caller unchanged
\* unless it is a foreign-key violation whose diagnostic yields a table
\* name, a handled failure is raised again as the object it was, and a call
\* that returned has met no failure and stored every record
C9_UntranslatedVerbatim ==
    /\ outcome.op \in Creates /\ outcome.kind = "return" =>
         /\ outcome.cause = NoFailure
         /\ Cardinality(NewRows(outcome.db0, db)) = Len(outcome.payloads)
    /\ outcome.op \in Creates /\ outcome.kind = "raise" =>
        \/ /\ outcome.cause = NoFailure
           /\ outcome.failure.cls \in
                {"OperationalError", "PendingRollbackError", "CancelledError"}
        \/ /\ outcome.cause # NoFailure
           /\ outcome.failure = outcome.cause
           /\ IsIntegrityError(outcome.failure)
        \/ /\ IsForeignKeyViolation(outcome.cause)
           /\ TableNameFromMessage(outcome.cause.msg) # None
           /\ outcome.failure.cls = "ValueError"

\* a foreign-key violation whose diagnostic names no table reached the
\* caller as the integrity failure it was
C9_Witness ==
    /\ pc = "returned"
    /\ outcome.op = "create"
    /\ outcome.kind = "raise"
    /\ outcome.cause = FkViolation(SqliteFkMessage)
    /\ outcome.failure = outcome.cause

\* C10: create returns a record with an identifier and the payload's field
\* values, and a get_by_id on that identifier right after it returns the
\* same record, field for field
C10_CreateRoundTrip ==
    /\ outcome.op = "create" /\ outcome.kind = "return" =>
         /\ Len(outcome.value) = 1
         /\ outcome.value[1].id # None
         /\ Carries(outcome.value[1], outcome.payloads[1])
    /\ /\ outcome.op = "get_by_id"
       /\ outcome.kind = "return"
       /\ prev.op = "create"
       /\ outcome.id = prev.value[1].id
       => outcome.value = prev.value

\* a get_by_id returned right after a create that had its identifier generated
C10_Witness ==
    /\ pc = "returned"
    /\ outcome.op = "get_by_id"
    /\ outcome.kind = "return"
    /\ prev.op = "create"
    /\ "id" \notin DOMAIN prev.payloads[1]
    /\ outcome.id = prev.value[1].id
    /\ outcome.value # None

\* the rows without the record of the identifier
Without(rows, id) ==
    IF id \in IdsOf(rows) THEN Remove(rows, RowIndex(rows, id)) ELSE rows

\* C11 (as claimed): a delete that returned has removed the record and left
\* every other record as it was, and while no create has run since, the
\* store holds no record of that identifier and get_by_id on it returns none
C11_DeleteStaysAbsent ==
    /\ outcome.op = "delete" /\ outcome.kind = "return" =>
         db = Without(outcome.db0, outcome.id[1])
    /\ prev.op = "delete" => prev.id[1] \notin IdsOf(db)
    /\ prev.op = "delete" /\ outcome.op = "get_by_id" /\ outcome.kind = "return"
         /\ outcome.id = prev.id
       => outcome.value = None

C13_PagesCoverEveryRecordOnce ==
    /\ outcome.op = "get_all" /\ outcome.kind = "return" =>
         /\ Len(outcome.value) <= outcome.payloads[1].limit
         /\ outcome.payloads[1].skip >= Len(db) => outcome.value = <<>>
    /\ /\ outcome.op = "get_all" /\ outcome.kind = "return"
       /\ prev.op = "get_all"
       /\ prev.payloads[1].skip = 0
       /\ Len(db) <= 2 * outcome.payloads[1].limit
       => LET both == prev.value \o outcome.value IN
          /\ Len(both) = Len(db)
          /\ Range(both) = Range(db)

\* C14 (as claimed): every entity that create, create_many, update or
\* get_by_id returns equals, on every field, a record committed in the store
\* at that moment, and a write that returns entities has refreshed them
C14_ReturnedEqualsCommitted ==
    /\ outcome.kind = "return"
    /\ outcome.op \in {"create", "create_many", "update", "get_by_id"}
    => /\ \A k \in DOMAIN outcome.value : outcome.value[k] \in Range(db)
       /\ outcome.op # "get_by_id" /\ outcome.value # <<>> =>
            "refresh" \in Range(calls)

\* C15 (as claimed): the record an update returns has the identifier the
\* call was given, and the store then holds exactly one record of it
C15_UpdateKeepsIdentity ==
    outcome.op = "update" /\ outcome.kind = "return" =>
        /\ outcome.value[1].id = outcome.id
        /\ Cardinality({k \in DOMAIN db : db[k].id = outcome.id}) = 1

ByIdentifier == {"get_by_id", "update", "delete"}

\* C16: on a descriptor that declares no identifier field, get_by_id, update
\* and delete fail with the configuration error, which is no NotFound
\* failure, having called nothing on the session and with the store and the
\* session as they were
C16_MissingIdentifierField ==
    orm_model = WithoutId =>
        /\ op.name \in ByIdentifier => calls = <<>>
        /\ outcome.op \in ByIdentifier =>
             /\ outcome.kind = "raise"
             /\ outcome.failure.cls = "AttributeError"
             /\ outcome.failure # ValueErr(NotFoundMessage(outcome.id[1]))
             /\ calls = <<>>
             /\ db = outcome.db0
             /\ sess = CleanSession

\* an update of a stored record failed on the descriptor
C16_Witness ==
    /\ pc = "returned"
    /\ orm_model = WithoutId
    /\ outcome.op = "update"
    /\ outcome.kind = "raise"
    /\ outcome.id[1] \in IdsOf(db)
    /\ outcome.failure =
         Failure("AttributeError", "None",
                 <<"Keyed", " must have an 'id' attribute">>, None)

\* the session methods the claim allows the repository
BorrowedSessionMethods ==
    {"execute", "add", "add_all", "delete", "commit", "rollback", "refresh"}

\* C17: whatever operations and transaction() blocks have run, the
\* repository has called on the session nothing but execute, add, add_all,
\* delete, commit, rollback and refresh; it has never closed it
C17_SessionBorrowed ==
    /\ Range(calls) \subseteq BorrowedSessionMethods
    /\ Range(tx.calls) \subseteq BorrowedSessionMethods
    /\ Range(txOutcome.calls) \subseteq BorrowedSessionMethods
    /\ Range(other.calls) \subseteq BorrowedSessionMethods

\* a delete failed at its commit inside a block, which rolled back
C17_Witness ==
    /\ pc = "returned"
    /\ outcome.op = "delete"
    /\ calls = <<"execute", "delete", "commit">>
    /\ txOutcome.kind = "raise"
    /\ txOutcome.calls = <<"rollback">>

\* the payload violates no constraint on the rows
ValidOn(p, rows) ==
    /\ "id" \in DOMAIN p /\ p.id # None => p.id[1] \notin IdsOf(rows)
    /\ "fk" \in DOMAIN p /\ p.fk # None => p.fk[1] \in Parents

\* the failures an await meets on its own account
AwaitFailures == {StorageFailure, Cancelled}

\* C18: a create or create_many that failed on an integrity violation has
\* rolled the session back and left the store as it was, and a create that
\* follows on the same session is not refused by the session, succeeds when
\* its payload is valid and no await fails, and adds its own record only
C18_RecoveryAfterIntegrityFailure ==
    /\ /\ outcome.op \in Creates
       /\ outcome.kind = "raise"
       /\ IsIntegrityError(outcome.cause)
       => /\ "rollback" \in Range(calls)
          /\ sess = CleanSession
          /\ db = outcome.db0
    /\ op.name = "create" /\ prev.op \in Creates =>
         /\ Range(prev.db0) \subseteq Range(db)
         /\ Cardinality(NewRows(prev.db0, db)) <= 1
    /\ outcome.op = "create" /\ prev.op \in Creates =>
         /\ outcome.failure # PendingRollback
         /\ ValidOn(outcome.payloads[1], prev.db0) =>
              outcome.kind = "return" \/ outcome.failure \in AwaitFailures
         /\ outcome.kind = "return" =>
              /\ Range(db) = Range(prev.db0) \cup {outcome.value[1]}
              /\ Len(db) = Len(prev.db0) + 1
              /\ Carries(outcome.value[1], outcome.payloads[1])
         /\ outcome.kind = "raise" /\ outcome.at # "refresh" => db = prev.db0
         /\ Cardinality(NewRows(prev.db0, db)) <= 1

\* a create returned right after a batch of two failed on an integrity
\* violation of its second payload
C18_Witness ==
    /\ pc = "returned"
    /\ outcome.op = "create"
    /\ outcome.kind = "return"
    /\ prev.op = "create_many"
    /\ IsIntegrityError(prev.cause)
    /\ Len(prev.payloads) = 2
    /\ ValidOn(prev.payloads[1], prev.db0)

\* the call the other caller is making or has made
OtherCall ==
    IF other.outcome.op # "none"
    THEN [name |-> other.outcome.op, id |-> other.outcome.id]
    ELSE [name |-> other.op.name, id |-> other.op.id]

\* C19 (as claimed): with two callers on sessions of their own, an update
\* or a delete of a stored record, run while the other caller deletes the same
\* record, returns or fails with NotFound in every interleaving, unless one
\* of its awaits fails or its payload violates a constraint
C19_InterleavedLookupThenWrite ==
    /\ outcome.op \in {"update", "delete"}
    /\ outcome.kind # "none"
    /\ outcome.id[1] \in IdsOf(outcome.db0)
    /\ OtherCall = [name |-> "delete", id |-> outcome.id]
    /\ outcome.failure \notin AwaitFailures
    /\ ~IsIntegrityError(outcome.failure)
    => \/ outcome.kind = "return"
       \/ outcome.failure =
            ValueErr(<<"Item with id ", Digits[outcome.id[1]], " not found">>)

=============================================================================
